---- MODULE Spec2Model ----
(***************************************************************************)
(* A model of containix, the rootless container launcher: the filesystem   *)
(* assembler (container.rs, mount.rs, tempdir.rs), the namespace-entry     *)
(* engine (unshare.rs), the child handles (command.rs), the network helper *)
(* driver (cli_wrappers/slirp.rs) and the launcher's main (main.rs).       *)
(*                                                                         *)
(* Spec        one launcher invocation: configure, build the ContainerFs,  *)
(*             spawn, wait, drop the ContainerGuard, exit.                 *)
(* SpecUnshare the namespace-entry engine alone, enter() and execute(),    *)
(*             over every builder configuration.                           *)
(***************************************************************************)
EXTENDS Integers, Sequences, FiniteSets, TLC

VARIABLES
    pc,             \* where the launcher's main thread stands
    nix_components, \* ContainerFsBuilder.nix_components: store paths
    volumes,        \* ContainerFsBuilder.volumes: container_path of each
    port_mappings,  \* ContainerBuilder.port_mappings
    tempdir,        \* the TempDir guard: "none", "live", "dropped"
    nix_mounts,     \* live MountGuards of the closure mounts
    volume_mounts,  \* live MountGuards of the volume mounts
    mt,             \* the kernel's mount table below the rootfs
    dir,            \* whether the temp directory exists on disk
    log,            \* the system calls made so far, in order
    child,          \* the cloned child process
    unshare,        \* the UnshareEnvironment the builder was given
    thunk,          \* the values the closure given to execute() may return
    call,           \* the last enter()/execute()/spawn() call and its result
    slirp,          \* the helper process: "none", "running", "dead"
    pipe,           \* the ready pipe: "none", "open", "byte", "eof"
    thread,         \* the background thread of Slirp::activate
    wait_result,    \* what wait() on the container child returned
    exit_code,      \* the launcher's exit code, -1 while it runs
    input,          \* the argument given to a parser or a selection
    output          \* what the parser or the selection returned

fsvars == <<nix_components, volumes, tempdir, nix_mounts, volume_mounts>>
kvars == <<mt, dir, log>>
uvars == <<unshare, thunk>>
netvars == <<slirp, pipe, thread>>
pvars == <<input, output>>
vars == <<pc, nix_components, volumes, port_mappings, tempdir, nix_mounts,
          volume_mounts, mt, dir, log, child, unshare, thunk, call, slirp,
          pipe, thread, wait_result, exit_code, input, output>>

----------------------------------------------------------------------------
(* Bounds of the model. *)

MaxNix == 2
MaxVolumes == 2
MaxPorts == 2

(* Paths are sequences of components, relative to the rootfs (rootless()). *)
NixPaths == {<<"nix", "a">>, <<"nix", "b">>}
VolumePaths == {<<"data">>, <<"data", "sub">>, <<"nix", "a", "v">>}
Ports == {[host_port |-> 8080, container_port |-> 80]}
ExitCodes == {0, 7}
ThunkReturns == {0, 7, -100}

Call(fn, res, at) == [fn |-> fn, res |-> res, at |-> at]

Ev(op, grp, idx, ok) == [op |-> op, grp |-> grp, idx |-> idx, ok |-> ok]

Range(s) == {s[i] : i \in 1..Len(s)}

----------------------------------------------------------------------------
(* The kernel's side of mount(2) and umount(2).  A mount is [id, on, at]:  *)
(* it sits on directory `at` of mount `on`; 0 is the temp directory's own  *)
(* filesystem.  A path is resolved component by component, crossing into   *)
(* the mount that sits on each directory reached.                          *)

RECURSIVE Cross(_, _, _)
Cross(m, cur, rel) ==
    LET here == {x \in m : x.on = cur /\ x.at = rel}
    IN IF here = {} THEN <<cur, rel>>
       ELSE Cross(m, (CHOOSE x \in here : TRUE).id, <<>>)

RECURSIVE Walk(_, _, _, _)
Walk(m, cur, rel, rest) ==
    LET c == Cross(m, cur, rel)
    IN IF rest = <<>> THEN c
       ELSE Walk(m, c[1], Append(c[2], Head(rest)), Tail(rest))

Lookup(m, path) == Walk(m, 0, <<>>, path)

(* umount(2) without MNT_DETACH: the path must be the root of a mount      *)
(* (EINVAL or ENOENT otherwise) that has no mount below it (EBUSY).        *)
UmountOk(m, path) ==
    LET r == Lookup(m, path)
    IN /\ r[1] # 0
       /\ r[2] = <<>>
       /\ \A x \in m : x.on # r[1]

(* What a drop acts on: the kernel's state and the guards still alive. *)
world ==
    [mt |-> mt, dir |-> dir, log |-> log, tempdir |-> tempdir,
     nix_mounts |-> nix_mounts, volume_mounts |-> volume_mounts,
     child |-> child, slirp |-> slirp, pipe |-> pipe]

(* The variables take the values a drop or a mount left. *)
Becomes(w) ==
    /\ mt' = w.mt
    /\ dir' = w.dir
    /\ log' = w.log
    /\ tempdir' = w.tempdir
    /\ nix_mounts' = w.nix_mounts
    /\ volume_mounts' = w.volume_mounts
    /\ child' = w.child
    /\ slirp' = w.slirp
    /\ pipe' = w.pipe

Logged(w, e) == [w EXCEPT !.log = Append(@, e)]

(* `if let Err(e) = .. { error!(..) }`: a line in the error log when the   *)
(* call failed, and nothing else.                                          *)
error(w, ok, grp, idx) ==
    IF ok THEN w ELSE Logged(w, Ev("error", grp, idx, FALSE))

(* mount.rs: unmount(path), as MountGuard::drop calls it: the result is    *)
(* logged and dropped.                                                     *)
unmount(w, path, grp, idx) ==
    LET ok == UmountOk(w.mt, path)
    IN [w EXCEPT !.mt = IF ok THEN {x \in @ : x.id # Lookup(w.mt, path)[1]}
                        ELSE @,
                 !.log = Append(@, Ev("umount", grp, idx, ok))]

(* BindMount::mount with the kernel accepting the call. *)
bind_mount(w, path, grp, idx) ==
    LET r == Lookup(w.mt, path)
    IN [w EXCEPT !.mt = @ \cup {[id |-> Len(w.log) + 1, on |-> r[1],
                                 at |-> r[2]]},
                 !.log = Append(@, Ev("mount", grp, idx, TRUE))]

(* A MountGuard is Option<PathBuf>: Some(dest) unless built with           *)
(* cleanup = false.                                                        *)
MountGuard(cleanup, dest) == [some |-> cleanup, path |-> dest]

(* A guard that forgets it was built with cleanup = false. *)
MountGuard_drop_always(w, g, grp, idx) ==
    unmount(w, g.path, grp, idx)

(* Drop for MountGuard: nothing for None; for Some(path) unmount(path),    *)
(* and error!(..) when it returned Err.                                    *)
MountGuard_drop(w, g, grp, idx) ==
    IF g.some
    THEN error(unmount(w, g.path, grp, idx), UmountOk(w.mt, g.path), grp, idx)
    ELSE w

(* A Vec<MountGuard> whose drop gives up at the first unmount that fails. *)
RECURSIVE Vec_drop_until_failure(_, _, _, _)
Vec_drop_until_failure(w, gs, grp, i) ==
    IF i > Len(gs) THEN w
    ELSE IF gs[i].some /\ ~UmountOk(w.mt, gs[i].path)
         THEN MountGuard_drop(w, gs[i], grp, i)
         ELSE Vec_drop_until_failure(MountGuard_drop(w, gs[i], grp, i),
                                     gs, grp, i + 1)

(* Dropping a Vec<MountGuard> drops its elements first to last. *)
RECURSIVE Vec_drop(_, _, _, _)
Vec_drop(w, gs, grp, i) ==
    IF i > Len(gs) THEN w
    ELSE Vec_drop(MountGuard_drop(w, gs[i], grp, i), gs, grp, i + 1)

drop_volume_mounts(w) ==
    [Vec_drop(w, w.volume_mounts, "volume", 1) EXCEPT !.volume_mounts = <<>>]

drop_nix_mounts(w) ==
    [Vec_drop(w, w.nix_mounts, "nix", 1) EXCEPT !.nix_mounts = <<>>]

(* TempDir::drop: remove_dir_all, which fails when the directory is not    *)
(* there or a mount is still in it; the failure is logged.                 *)
TempDir_drop(w) ==
    LET ok == w.dir /\ w.mt = {}
    IN error([w EXCEPT !.dir = IF ok THEN FALSE ELSE @,
                       !.tempdir = "dropped",
                       !.log = Append(@, Ev("remove_dir_all", "tempdir", 0, ok))],
             ok, "tempdir", 0)

(* ContainerFsGuard with nix_mounts declared before volume_mounts. *)
ContainerFsGuard_drop_nix_first(w) ==
    TempDir_drop(drop_volume_mounts(drop_nix_mounts(w)))

(* ContainerFsGuard: the fields drop in the order of their declaration:    *)
(* volume_mounts, nix_mounts, tempdir.                                     *)
ContainerFsGuard_drop(w) ==
    TempDir_drop(drop_nix_mounts(drop_volume_mounts(w)))

(* build() with the closure guards forgotten on the way out. *)
build_unwind_leak(w) ==
    TempDir_drop(drop_volume_mounts(w))

(* build() with the closure guards released before the volumes'. *)
build_unwind_nix_first(w) ==
    TempDir_drop(drop_volume_mounts(drop_nix_mounts(w)))

(* build() leaving with `?`: the Vec collected so far is dropped inside    *)
(* collect(), then the locals in reverse order of declaration: nix_mounts  *)
(* (once bound), root, tempdir.                                            *)
build_unwind(w) ==
    TempDir_drop(drop_nix_mounts(drop_volume_mounts(w)))

----------------------------------------------------------------------------
(* ContainerFsBuilder and ContainerBuilder setters. *)

nix_component(p) ==
    /\ pc = "configure"
    /\ Len(nix_components) < MaxNix
    /\ p \notin Range(nix_components)
    /\ nix_components' = Append(nix_components, p)
    /\ UNCHANGED <<pc, volumes, port_mappings, tempdir, nix_mounts,
                   volume_mounts, kvars, child, uvars, pvars, call, netvars,
                   wait_result, exit_code>>

volume(p) ==
    /\ pc = "configure"
    /\ Len(volumes) < MaxVolumes
    /\ volumes' = Append(volumes, p)
    /\ UNCHANGED <<pc, nix_components, port_mappings, tempdir, nix_mounts,
                   volume_mounts, kvars, child, uvars, pvars, call, netvars,
                   wait_result, exit_code>>

port(p) ==
    /\ pc = "configure"
    /\ Len(port_mappings) < MaxPorts
    /\ port_mappings' = Append(port_mappings, p)
    /\ UNCHANGED <<pc, fsvars, kvars, child, uvars, pvars, call, netvars,
                   wait_result, exit_code>>

----------------------------------------------------------------------------
(* ContainerFsBuilder::build, one step per directory and mount. *)

(* TempDir::with_prefix: with_name joins the prefix and a fresh uuid to     *)
(* temp_dir() and returns Ok(Self(path)); it makes no file system call.    *)
build_tempdir ==
    /\ pc = "configure"
    /\ tempdir' = "live"
    /\ pc' = "root"
    /\ UNCHANGED <<nix_components, volumes, port_mappings, nix_mounts,
                   volume_mounts, kvars, child, uvars, pvars, call, netvars,
                   wait_result, exit_code>>

(* create_dir_all(root) makes the temp directory and root/ in it. *)
build_root ==
    /\ pc = "root"
    /\ \E ok \in BOOLEAN :
         LET w == Logged(world, Ev("create_dir_all", "root", 0, ok))
         IN IF ok
            THEN /\ Becomes([w EXCEPT !.dir = TRUE])
                 /\ pc' = "build"
                 /\ UNCHANGED <<call, exit_code>>
            ELSE /\ Becomes(build_unwind(w))
                 /\ pc' = "exit"
                 /\ call' = Call("build", "err", "root")
                 /\ exit_code' = 1
    /\ UNCHANGED <<nix_components, volumes, port_mappings, uvars, pvars, thread,
                   wait_result>>

build_nix_mount ==
    /\ pc = "build"
    /\ Len(nix_mounts) < Len(nix_components)
    /\ LET i == Len(nix_mounts) + 1
           target == nix_components[i]
       IN \E r \in {"ok", "create_dir_all", "mount"} :
            IF r = "ok"
            THEN /\ Becomes([bind_mount(world, target, "nix", i) EXCEPT
                               !.nix_mounts = Append(@, MountGuard(TRUE, target))])
                 /\ UNCHANGED <<pc, call, exit_code>>
            ELSE /\ Becomes(build_unwind(Logged(world, Ev(r, "nix", i, FALSE))))
                 /\ pc' = "exit"
                 /\ call' = Call("build", "err", "nix")
                 /\ exit_code' = 1
    /\ UNCHANGED <<nix_components, volumes, port_mappings, uvars, pvars, thread,
                   wait_result>>

build_volume_mount ==
    /\ pc = "build"
    /\ Len(nix_mounts) = Len(nix_components)
    /\ Len(volume_mounts) < Len(volumes)
    /\ LET k == Len(volume_mounts) + 1
           dest == volumes[k]
       IN \E r \in {"ok", "create_dir_all", "mount"} :
            IF r = "ok"
            THEN /\ Becomes([bind_mount(world, dest, "volume", k) EXCEPT
                               !.volume_mounts = Append(@, MountGuard(TRUE, dest))])
                 /\ UNCHANGED <<pc, call, exit_code>>
            ELSE /\ Becomes(build_unwind(Logged(world, Ev(r, "volume", k, FALSE))))
                 /\ pc' = "exit"
                 /\ call' = Call("build", "err", "volume")
                 /\ exit_code' = 1
    /\ UNCHANGED <<nix_components, volumes, port_mappings, uvars, pvars, thread,
                   wait_result>>

build_return ==
    /\ pc = "build"
    /\ Len(nix_mounts) = Len(nix_components)
    /\ Len(volume_mounts) = Len(volumes)
    /\ pc' = "spawn"
    /\ call' = Call("build", "ok", "")
    /\ UNCHANGED <<fsvars, port_mappings, kvars, child, uvars, pvars, netvars,
                   wait_result, exit_code>>

----------------------------------------------------------------------------
(* The namespace-entry engine (unshare.rs). *)

(* The system calls `ops` in order, up to and with the first that fails. *)
RECURSIVE Try(_, _, _)
Try(ops, fail, who) ==
    IF ops = <<>> THEN <<>>
    ELSE IF Head(ops) = fail THEN <<Ev(Head(ops), who, 0, FALSE)>>
    ELSE <<Ev(Head(ops), who, 0, TRUE)>> \o Try(Tail(ops), fail, who)

Failed(evs) == \E i \in 1..Len(evs) : ~evs[i].ok

(* The id maps written gid first. *)
write_id_maps_gid_first(fail, who) ==
    Try(<<"setgroups", "gid_map", "uid_map">>, fail, who)

write_id_maps(fail, who) == Try(<<"setgroups", "uid_map", "gid_map">>, fail, who)

post_enter_setup(cfg, fail, who) ==
    LET maps == IF cfg.uid_maps \/ cfg.gid_maps
                THEN write_id_maps(fail, who) ELSE <<>>
    IN IF Failed(maps) THEN maps
       ELSE maps \o (IF cfg.root THEN Try(<<"chroot", "chdir">>, fail, who)
                     ELSE <<>>)

PostEnterCalls == {"setgroups", "uid_map", "gid_map", "chroot", "chdir"}

(* The exit status the parent sees of a value returned by the child's      *)
(* main: its low 8 bits.                                                   *)
ExitStatus(v) == v % 256

(* A cloned child: its state, exit status, whether the launcher signalled  *)
(* it, and the system calls it made.                                       *)
Process(st, status, sig) ==
    [st |-> st, status |-> status, sig |-> sig, calls |-> <<>>]

(* enter(): unshare(2), then post_enter_setup in the calling process. *)
enter ==
    /\ pc = "unshare"
    /\ \E fail \in {"none", "unshare"} \cup PostEnterCalls :
         LET evs == IF fail = "unshare"
                    THEN <<Ev("unshare", "parent", 0, FALSE)>>
                    ELSE <<Ev("unshare", "parent", 0, TRUE)>>
                         \o post_enter_setup(unshare, fail, "parent")
         IN /\ Failed(evs) = (fail # "none")
            /\ log' = log \o evs
            /\ call' = Call("enter", IF Failed(evs) THEN "err" ELSE "ok", fail)
    /\ pc' = "returned"
    /\ UNCHANGED <<fsvars, port_mappings, mt, dir, child, uvars, pvars, netvars,
                   wait_result, exit_code>>

(* execute(): clone(2) with the callback, the 100 ms sleep, the handle. *)
execute ==
    /\ pc = "unshare"
    /\ \E ok \in BOOLEAN :
         /\ log' = Append(log, Ev("clone", "parent", 0, ok))
         /\ child' = IF ok THEN Process("setup", 0, FALSE) ELSE child
         /\ call' = Call("execute", IF ok THEN "ok" ELSE "err", "clone")
    /\ pc' = "returned"
    /\ UNCHANGED <<fsvars, port_mappings, mt, dir, uvars, pvars, netvars,
                   wait_result, exit_code>>

(* The callback with the result of post_enter_setup ignored. *)
clone_callback_unchecked(c, evs) ==
    [c EXCEPT !.st = "thunk", !.calls = @ \o evs]

(* The callback given to clone: when post_enter_setup fails it logs the    *)
(* error and returns -1000 without calling f.                              *)
clone_callback(c, evs) ==
    IF Failed(evs)
    THEN [c EXCEPT !.st = "exited", !.status = ExitStatus(-1000),
                   !.calls = @ \o evs]
    ELSE [c EXCEPT !.st = "thunk", !.calls = @ \o evs]

child_post_enter_setup ==
    /\ pc # "exit"
    /\ child.st = "setup"
    /\ \E fail \in {"none"} \cup PostEnterCalls :
         LET evs == post_enter_setup(unshare, fail, "child")
         IN /\ Failed(evs) = (fail # "none")
            /\ child' = clone_callback(child, evs)
    /\ UNCHANGED <<pc, fsvars, port_mappings, kvars, uvars, pvars, call, netvars,
                   wait_result, exit_code>>

(* The callback given to clone: f(), which execs or returns a value. *)
child_thunk ==
    /\ pc # "exit"
    /\ child.st = "thunk"
    /\ \/ child' = [child EXCEPT
                        !.st = "running",
                        !.calls = Append(@, Ev("exec", "child", 0, TRUE))]
       \/ \E v \in thunk :
            child' = [child EXCEPT
                        !.st = "exited",
                        !.status = ExitStatus(v),
                        !.calls = Append(@, Ev("return", "child", v, TRUE))]
    /\ UNCHANGED <<pc, fsvars, port_mappings, kvars, uvars, pvars, call, netvars,
                   wait_result, exit_code>>

(* The command the child became exits. *)
child_exit ==
    /\ pc # "exit"
    /\ child.st = "running"
    /\ \E c \in ExitCodes :
         child' = [child EXCEPT !.st = "exited", !.status = c]
    /\ UNCHANGED <<pc, fsvars, port_mappings, kvars, uvars, pvars, call, netvars,
                   wait_result, exit_code>>

(* The child dies of a signal. *)
child_signalled ==
    /\ pc # "exit"
    /\ child.st \in {"setup", "thunk", "running"}
    /\ child' = [child EXCEPT !.st = "killed"]
    /\ UNCHANGED <<pc, fsvars, port_mappings, kvars, uvars, pvars, call, netvars,
                   wait_result, exit_code>>

(* NixUnistdChild::wait: waitpid(pid, None).  execute() clones the child    *)
(* with no exit signal (signal None), so until the child has exec'd, which *)
(* resets its exit signal to SIGCHLD, a waitpid without __WCLONE finds no  *)
(* child to wait for and fails with ECHILD at once.  Otherwise it blocks   *)
(* until the child has ended: Some(status) of a clean exit, None else.     *)
WaitResult(res, some, code) == [res |-> res, some |-> some, code |-> code]

Execd(c) == \E i \in 1..Len(c.calls) : c.calls[i].op = "exec"

NixUnistdChild_wait(c) ==
    IF ~Execd(c) THEN WaitResult("err", FALSE, 0)
    ELSE IF c.st = "exited" THEN WaitResult("ok", TRUE, c.status)
    ELSE WaitResult("ok", FALSE, 0)

wait ==
    /\ pc \in {"wait", "returned"}
    /\ call.res = "ok"
    /\ call.fn \in {"spawn", "execute"}
    /\ ~Execd(child) \/ child.st \in {"exited", "killed"}
    /\ wait_result' = NixUnistdChild_wait(child)
    /\ child' = IF Execd(child) THEN [child EXCEPT !.st = "reaped"] ELSE child
    /\ pc' = IF pc = "wait" THEN "drop" ELSE "waited"
    /\ UNCHANGED <<fsvars, port_mappings, kvars, uvars, pvars, call, netvars,
                   exit_code>>

----------------------------------------------------------------------------
(* ContainerBuilder::spawn and Slirp::activate. *)

(* The pids clone() may return. *)
Pids == {4242}

(* A handle that reports pid 0 instead of the child's. *)
NixUnistdChild_pid_lost(w) == 0 * Len(w.log)

(* NixUnistdChild::pid: the Pid the handle was made from, the one clone()  *)
(* returned.                                                               *)
NixUnistdChild_pid(w) ==
    LET c == CHOOSE i \in 1..Len(w.log) : w.log[i].op = "clone" /\ w.log[i].ok
    IN w.log[c].idx

Thread(st, ready, exposed, hostfwd, err) ==
    [st |-> st, ready |-> ready, exposed |-> exposed, hostfwd |-> hostfwd,
     err |-> err]

(* spawn() up to `.context("Entering unshare environment")?`: execute()    *)
(* with the container's closure; on Err the locals drop, opts.root among   *)
(* them.                                                                   *)
spawn_execute ==
    /\ pc = "spawn"
    /\ \E ok \in BOOLEAN, pid \in Pids :
         LET w == Logged(world, Ev("clone", "parent", IF ok THEN pid ELSE 0, ok))
         IN IF ok
            THEN /\ Becomes([w EXCEPT !.child = Process("setup", 0, FALSE)])
                 /\ pc' = "activate"
                 /\ call' = Call("execute", "ok", "clone")
                 /\ UNCHANGED exit_code
            ELSE /\ Becomes(ContainerFsGuard_drop(w))
                 /\ pc' = "exit"
                 /\ call' = Call("spawn", "err", "clone")
                 /\ exit_code' = 1
    /\ UNCHANGED <<nix_components, volumes, port_mappings, uvars, pvars, thread,
                   wait_result>>

(* Slirp::activate as spawn() calls it: the ready pipe, the helper, the    *)
(* detached thread; on Err spawn() returns it and its locals drop: handle  *)
(* (a NixUnistdChild has no Drop) and opts.root.                           *)
spawn_err(w) == ContainerFsGuard_drop(w)

activate ==
    /\ pc = "activate"
    /\ \E r \in {"ok", "pipe", "spawn"} :
         LET pid == NixUnistdChild_pid(world)
         IN IF r = "ok"
            THEN /\ Becomes([Logged(world, Ev("spawn", "slirp", pid, TRUE))
                               EXCEPT !.slirp = "running", !.pipe = "open"])
                 /\ thread' = Thread("waiting", "none", 0, 0, FALSE)
                 /\ pc' = "wait"
                 /\ call' = Call("spawn", "ok", "")
                 /\ UNCHANGED exit_code
            ELSE /\ Becomes(spawn_err(Logged(world,
                      Ev(r, "slirp", IF r = "spawn" THEN pid ELSE 0, FALSE))))
                 /\ pc' = "exit"
                 /\ call' = Call("spawn", "err", r)
                 /\ exit_code' = 1
                 /\ UNCHANGED thread
    /\ UNCHANGED <<nix_components, volumes, port_mappings, uvars, pvars, wait_result>>

(* The helper writes the ready byte to --ready-fd. *)
slirp_ready ==
    /\ pc # "exit"
    /\ slirp = "running"
    /\ pipe = "open"
    /\ pipe' = "byte"
    /\ UNCHANGED <<pc, fsvars, port_mappings, kvars, child, uvars, pvars, call,
                   slirp, thread, wait_result, exit_code>>

(* The helper exits; the last write end of the ready pipe closes with it. *)
slirp_exit ==
    /\ pc # "exit"
    /\ slirp = "running"
    /\ slirp' = "dead"
    /\ pipe' = IF pipe = "open" THEN "eof" ELSE pipe
    /\ UNCHANGED <<pc, fsvars, port_mappings, kvars, child, uvars, pvars, call,
                   thread, wait_result, exit_code>>

(* wait_for_slirp_ready: `while let Ok(0) = signal.read(&mut buf) {}`      *)
(* leaves the loop on Ok(1) and on Err alike, and returns Ok(()); on       *)
(* Ok(0), end of file, it reads again.                                     *)
wait_for_slirp_ready(read) ==
    IF read = "Ok(0)" THEN "waiting" ELSE "ready"

ReadOutcomes == {"Ok(1)", "Ok(0)", "Err"}

thread_wait_ready ==
    /\ pc # "exit"
    /\ thread.st = "waiting"
    /\ \E read \in ReadOutcomes :
         /\ read = "Ok(1)" => pipe = "byte"
         /\ read = "Ok(0)" => pipe = "eof"
         /\ thread' =
              IF wait_for_slirp_ready(read) = "waiting"
              THEN [thread EXCEPT !.ready = read]
              ELSE [thread EXCEPT
                      !.ready = read,
                      !.st = IF port_mappings = <<>> THEN "done" ELSE "expose"]
    /\ UNCHANGED <<pc, fsvars, port_mappings, kvars, child, uvars, pvars, call,
                   slirp, pipe, wait_result, exit_code>>

(* intialize_with_ports: expose_port for each mapping, stopping at the     *)
(* first that fails; the error is logged by the thread.                    *)
thread_expose_port ==
    /\ pc # "exit"
    /\ thread.st = "expose"
    /\ \E ok \in BOOLEAN :
         /\ ok => (slirp = "running" /\ dir)
         /\ thread' =
              IF ok
              THEN [thread EXCEPT
                      !.exposed = @ + 1,
                      !.hostfwd = @ + 1,
                      !.st = IF thread.exposed + 1 = Len(port_mappings)
                             THEN "done" ELSE "expose"]
              ELSE [thread EXCEPT !.err = TRUE, !.st = "done"]
    /\ UNCHANGED <<pc, fsvars, port_mappings, kvars, child, uvars, pvars, call,
                   slirp, pipe, wait_result, exit_code>>

----------------------------------------------------------------------------
(* The end of the invocation: ContainerGuard::drop and main's result. *)

(* NixUnistdChild::kill: SIGTERM to the pid; the result of kill(2) is      *)
(* discarded (`_ =`) and Ok(()) returned, so ContainerGuard::drop never    *)
(* takes its error!("Failed to kill container") branch.                    *)
NixUnistdChild_kill(w) ==
    LET there == w.child.st \notin {"none", "reaped"}
    IN [Logged(w, Ev("kill", "container", 0, there)) EXCEPT
          !.child.sig = @ \/ there]

(* std::process::Child::kill on the helper, never waited for: SIGKILL. *)
Child_kill(w) ==
    [Logged(w, Ev("kill", "slirp", 0, TRUE)) EXCEPT
       !.slirp = "dead",
       !.pipe = IF @ = "open" THEN "eof" ELSE @]

(* ContainerGuard with the helper killed only after root is released. *)
ContainerGuard_drop_fs_first(w) ==
    Child_kill(ContainerFsGuard_drop(NixUnistdChild_kill(w)))

(* Drop for ContainerGuard: drop() kills the container, then the helper;   *)
(* then the fields drop in declaration order: slirp, handle, root.         *)
ContainerGuard_drop(w) ==
    ContainerFsGuard_drop(Child_kill(NixUnistdChild_kill(w)))

(* main.rs: create_container's `wait().context(..)?; Ok(())` and main's    *)
(* Result<()>: 0 for Ok(()), 1 for Err.                                    *)
main_exit_code(wr) == IF wr.res = "ok" THEN 0 ELSE 1

create_container_return ==
    /\ pc = "drop"
    /\ Becomes(ContainerGuard_drop(world))
    /\ exit_code' = main_exit_code(wait_result)
    /\ pc' = "exit"
    /\ UNCHANGED <<nix_components, volumes, port_mappings, uvars, pvars, call,
                   thread, wait_result>>

----------------------------------------------------------------------------
ContainerConfig == [uid_maps |-> TRUE, gid_maps |-> TRUE, root |-> TRUE]

Quiet ==
    /\ nix_components = <<>>
    /\ volumes = <<>>
    /\ port_mappings = <<>>
    /\ tempdir = "none"
    /\ nix_mounts = <<>>
    /\ volume_mounts = <<>>
    /\ mt = {}
    /\ dir = FALSE
    /\ log = <<>>
    /\ child = Process("none", 0, FALSE)
    /\ call = Call("none", "none", "")
    /\ slirp = "none"
    /\ pipe = "none"
    /\ thread = Thread("none", "none", 0, 0, FALSE)
    /\ wait_result = WaitResult("none", FALSE, 0)
    /\ exit_code = -1

(* No parser or selection has been called. *)
NoCall ==
    /\ input = [fn |-> "none"]
    /\ output = [res |-> "none"]

(* One launcher invocation.  The container's closure execs the command     *)
(* and returns -100 when exec fails.                                       *)
Init ==
    /\ Quiet
    /\ NoCall
    /\ pc = "configure"
    /\ unshare = ContainerConfig
    /\ thunk = {-100}

Next ==
    \/ \E p \in NixPaths : nix_component(p)
    \/ \E p \in VolumePaths : volume(p)
    \/ \E p \in Ports : port(p)
    \/ build_tempdir
    \/ build_root
    \/ build_nix_mount
    \/ build_volume_mount
    \/ build_return
    \/ spawn_execute
    \/ activate
    \/ slirp_ready
    \/ slirp_exit
    \/ thread_wait_ready
    \/ thread_expose_port
    \/ child_post_enter_setup
    \/ child_thunk
    \/ child_exit
    \/ child_signalled
    \/ wait
    \/ create_container_return

Spec == Init /\ [][Next]_vars

(* The engine alone, under every configuration of the builder. *)
InitUnshare ==
    /\ Quiet
    /\ NoCall
    /\ pc = "unshare"
    /\ unshare \in [uid_maps : BOOLEAN, gid_maps : BOOLEAN, root : BOOLEAN]
    /\ thunk = ThunkReturns

NextUnshare ==
    \/ enter
    \/ execute
    \/ child_post_enter_setup
    \/ child_thunk
    \/ child_exit
    \/ child_signalled
    \/ wait

SpecUnshare == InitUnshare /\ [][NextUnshare]_vars

----------------------------------------------------------------------------
(* mount.rs alone: BindMount::mount called for destinations of its         *)
(* caller's choice, with cleanup set or not, and the guards it returned    *)
(* dropped one by one, in any order.  The guards alive are kept in         *)
(* volume_mounts; each destination is mounted at most once, and a system   *)
(* call's idx is the place of its destination in Dests.                    *)

Dests == <<<<"data">>, <<"data", "sub">>, <<"nix", "a", "v">>>>

DestIdx(dest) == CHOOSE d \in 1..Len(Dests) : Dests[d] = dest

Tried(d) == \E i \in 1..Len(log) : log[i].op = "mount" /\ log[i].idx = d

Remove(q, j) == [i \in 1..(Len(q) - 1) |-> IF i < j THEN q[i] ELSE q[i + 1]]

(* BindMount::mount: nix::mount::mount(..)?, then the guard: Some(dest)    *)
(* when cleanup is set, None when it is not.                               *)
BindMount_mount ==
    /\ pc = "mount"
    /\ \E d \in 1..Len(Dests), cleanup \in BOOLEAN, ok \in BOOLEAN :
         LET grp == IF cleanup THEN "bind" ELSE "bind_keep"
         IN /\ ~Tried(d)
            /\ IF ok
               THEN Becomes([bind_mount(world, Dests[d], grp, d) EXCEPT
                               !.volume_mounts =
                                  Append(@, MountGuard(cleanup, Dests[d]))])
               ELSE Becomes(Logged(world, Ev("mount", grp, d, FALSE)))
    /\ UNCHANGED <<pc, nix_components, volumes, port_mappings, uvars, pvars, call,
                   thread, wait_result, exit_code>>

(* A guard goes out of scope. *)
MountGuard_dropped ==
    /\ pc = "mount"
    /\ \E j \in 1..Len(volume_mounts) :
         LET g == volume_mounts[j]
         IN Becomes([MountGuard_drop(world, g, "bind", DestIdx(g.path)) EXCEPT
                       !.volume_mounts = Remove(@, j)])
    /\ UNCHANGED <<pc, nix_components, volumes, port_mappings, uvars, pvars, call,
                   thread, wait_result, exit_code>>

InitMount ==
    /\ Quiet
    /\ NoCall
    /\ pc = "mount"
    /\ unshare = ContainerConfig
    /\ thunk = {-100}

NextMount ==
    \/ BindMount_mount
    \/ MountGuard_dropped

SpecMount == InitMount /\ [][NextMount]_vars

----------------------------------------------------------------------------
(* nix_helpers.rs: ContainixFlake::build, a function of the flake          *)
(* reference, of what `nix flake show` reports and of what `nix build`     *)
(* prints.                                                                 *)

MaxDrvs == 2

DEFAULT_OUTPUT_NAMES == <<"containix", "default">>

PackageNames == {"containix", "default", "hello"}

(* Option<NixFlakePackages>, looked up at the host's system: absent, no    *)
(* entry for the system, or the names under the system.                    *)
NoPackages == [some |-> FALSE, sys |-> FALSE, names |-> {}]
FlakePackages ==
    {NoPackages, [some |-> TRUE, sys |-> FALSE, names |-> {}]}
      \cup {[some |-> TRUE, sys |-> TRUE, names |-> n] : n \in SUBSET PackageNames}

(* The names of a derivation's outputs map, and the list nix build gives.  *)
DrvOutputs == SUBSET {"bin", "out", "dev"}
BuildOutputs == UNION {[1..n -> DrvOutputs] : n \in 0..MaxDrvs}

FlakeOutputs == {"none", "custom"}

FlakeInputs ==
    [fn : {"build"}, output : FlakeOutputs, packages : FlakePackages,
     legacy_packages : FlakePackages, built : BuildOutputs]

Ok(v) == [res |-> "ok", val |-> v]
Err(why) == [res |-> "err", val |-> why]
Panic == [res |-> "panic", val |-> "swap_remove"]

(* iter().find(..): the first name of the list that is among `names`. *)
find(list, names) ==
    LET hits == {i \in 1..Len(list) : list[i] \in names}
    IN IF hits = {} THEN "none"
       ELSE list[CHOOSE i \in hits : \A j \in hits : i <= j]

(* build(), lines 114-138: the flake reference that is built. *)
ContainixFlake_output(in) ==
    IF in.output = "none"
    THEN IF ~(in.packages.some /\ in.packages.sys)
         THEN Err("no packages for system")
         ELSE LET name == find(DEFAULT_OUTPUT_NAMES, in.packages.names)
              IN IF name = "none" THEN Err("no expected output")
                 ELSE Ok(<<"packages", name>>)
    ELSE Ok(<<in.output>>)

(* NixFlake::build: more than one derivation is an error; swap_remove(0)   *)
(* takes the first, and panics on an empty list.                           *)
NixFlake_build(built) ==
    IF Len(built) > 1 THEN Err("more than one output derivation")
    ELSE IF Len(built) = 0 THEN Panic
    ELSE Ok(built[1])

NixBuildResult_get_or_out(outputs, key) ==
    IF key \in outputs THEN key
    ELSE IF "out" \in outputs THEN "out"
    ELSE "none"

(* A get_bin that takes whatever output there is when bin and out are not. *)
NixBuildResult_get_bin_any(outputs) ==
    IF NixBuildResult_get_or_out(outputs, "bin") # "none"
    THEN NixBuildResult_get_or_out(outputs, "bin")
    ELSE IF outputs = {} THEN "none" ELSE CHOOSE o \in outputs : TRUE

NixBuildResult_get_bin(outputs) == NixBuildResult_get_or_out(outputs, "bin")

(* ContainixFlake::build: what is built, and the output taken from it. *)
ContainixFlake_build(in) ==
    LET c == ContainixFlake_output(in)
    IN IF c.res # "ok" THEN c
       ELSE LET build == NixFlake_build(in.built)
            IN IF build.res # "ok" THEN build
               ELSE LET path == NixBuildResult_get_bin(build.val)
                    IN IF path = "none" THEN Err("no bin or out")
                       ELSE Ok([attr |-> c.val, artifact |-> path])

build ==
    /\ pc = "flake"
    /\ output' = ContainixFlake_build(input)
    /\ pc' = "done"
    /\ UNCHANGED <<fsvars, port_mappings, kvars, child, uvars, call, netvars,
                   wait_result, exit_code, input>>

InitFlake ==
    /\ Quiet
    /\ unshare = ContainerConfig
    /\ thunk = {-100}
    /\ pc = "flake"
    /\ input \in FlakeInputs
    /\ output = [res |-> "none"]

NextFlake == build

SpecFlake == InitFlake /\ [][NextFlake]_vars

----------------------------------------------------------------------------
(* The parsers of command line arguments.  A string is a sequence of       *)
(* tokens; ":" "," "/" "+" "-" and "x" are single characters, the others   *)
(* are runs of letters or of digits, so that splitting at a character and  *)
(* comparing components work on tokens as they do on characters.           *)

MaxStoreLen == 7
MaxPortLen == 5
MaxVolumeLen == 7

Strings(alphabet, n) == UNION {[1..k -> alphabet] : k \in 0..n}

contains(s, c) == \E i \in 1..Len(s) : s[i] = c

starts_with(s, prefix) ==
    Len(s) >= Len(prefix) /\ SubSeq(s, 1, Len(prefix)) = prefix

(* str::split_once: the parts before and after the first c, when any. *)
split_once(s, c) ==
    IF ~contains(s, c) THEN <<FALSE, s, <<>>>>
    ELSE LET i == CHOOSE k \in 1..Len(s) :
                     s[k] = c /\ \A j \in 1..(k - 1) : s[j] # c
         IN <<TRUE, SubSeq(s, 1, i - 1), SubSeq(s, i + 1, Len(s))>>

(* str::split: the parts between the c's; one part when there is no c. *)
RECURSIVE split(_, _)
split(s, c) ==
    LET h == split_once(s, c)
    IN IF h[1] THEN <<h[2]>> \o split(h[3], c) ELSE <<s>>

(* nix_helpers.rs: TryFrom<&str> for NixStoreItem. *)
NixStoreItem_try_from(value) ==
    LET components == split(value, "/")
    IN IF /\ Len(components) = 4
          /\ components[1] = <<>>
          /\ components[2] = <<"nix">>
          /\ components[3] = <<"store">>
       THEN Ok(components[4])
       ELSE Err("not a nix store item")

(* examples/serde.rs: its own TryFrom<&str> for NixStoreItem, which takes  *)
(* a string without "/" as the item itself.                                *)
serde_NixStoreItem_try_from(value) ==
    IF ~starts_with(value, <<"/", "nix", "/", "store", "/">>)
         /\ ~contains(value, "/")
    THEN Ok(value)
    ELSE NixStoreItem_try_from(value)

(* The digits of the model: runs of decimal digits, with their value and   *)
(* the power of ten of their length.                                       *)
U16Max == 65535
Numerals == {"0", "80", "65535", "65536"}
NumeralValue(t) ==
    CASE t = "0" -> 0 [] t = "80" -> 80 [] t = "65535" -> U16Max
      [] t = "65536" -> U16Max + 1
NumeralShift(t) ==
    CASE t = "0" -> 10 [] t = "80" -> 100 [] t = "65535" -> 100000
      [] t = "65536" -> 100000

(* The value of a run of digits as from_str_radix accumulates it, with     *)
(* checked arithmetic: U16Max + 1 stands for "overflowed".                 *)
RECURSIVE checked_value(_, _)
checked_value(acc, digits) ==
    IF digits = <<>> THEN acc
    ELSE LET t == Head(digits)
             v == IF acc > U16Max \div NumeralShift(t) THEN U16Max + 1
                  ELSE acc * NumeralShift(t) + NumeralValue(t)
         IN checked_value(IF v > U16Max THEN U16Max + 1 ELSE v, Tail(digits))

(* A u16 parse that wraps around instead of failing. *)
parse_u16_wrapping(s) ==
    LET digits == IF s # <<>> /\ s[1] = "+" THEN Tail(s) ELSE s
    IN IF s = <<>> THEN Err("empty")
       ELSE IF digits = <<>> \/ \E i \in 1..Len(digits) : digits[i] \notin Numerals
       THEN Err("invalid digit")
       ELSE Ok(checked_value(0, digits) % (U16Max + 1))

(* str::parse::<u16>: an optional "+", then at least one digit, only       *)
(* digits, and a value that fits.                                          *)
parse_u16(s) ==
    LET digits == IF s # <<>> /\ s[1] = "+" THEN Tail(s) ELSE s
    IN IF s = <<>> THEN Err("empty")
       ELSE IF digits = <<>> \/ \E i \in 1..Len(digits) : digits[i] \notin Numerals
       THEN Err("invalid digit")
       ELSE IF checked_value(0, digits) > U16Max THEN Err("overflow")
       ELSE Ok(checked_value(0, digits))

(* ports.rs: FromStr for PortMapping. *)
PortMapping_from_str(s) ==
    IF ~contains(s, ":")
    THEN LET p == parse_u16(s)
         IN IF p.res # "ok" THEN p
            ELSE Ok([host_port |-> p.val, container_port |-> p.val])
    ELSE LET h == split_once(s, ":")
             host_port == parse_u16(h[2])
             container_port == parse_u16(h[3])
         IN IF host_port.res # "ok" THEN host_port
            ELSE IF container_port.res # "ok" THEN container_port
            ELSE Ok([host_port |-> host_port.val,
                     container_port |-> container_port.val])

(* A parser that takes every mount with options as read-only. *)
VolumeMount_from_str_any_option(s) ==
    LET h == split_once(s, ":")
        c == split_once(h[3], ":")
    IN IF ~h[1] THEN Err("no colon")
       ELSE Ok([host_path |-> h[2], container_path |-> c[2],
                read_only |-> c[1]])

(* volume_mount.rs: FromStr for VolumeMount. *)
VolumeMount_from_str(s) ==
    LET h == split_once(s, ":")
        c == split_once(h[3], ":")
        container_path == IF c[1] THEN c[2] ELSE h[3]
        options == split(IF c[1] THEN c[3] ELSE <<>>, ",")
        read_only == \E i \in 1..Len(options) : options[i] = <<"ro">>
    IN IF ~h[1] THEN Err("no colon")
       ELSE Ok([host_path |-> h[2], container_path |-> container_path,
                read_only |-> read_only])

(* Decimal numbers are single tokens, "0" to "255", without leading       *)
(* zeros; Decimal[n + 1] is the text of n.                                 *)
Decimal ==
    <<
      "0", "1", "2", "3", "4", "5", "6", "7", "8", "9", "10", "11", "12",
      "13", "14", "15", "16", "17", "18", "19", "20", "21", "22", "23",
      "24", "25", "26", "27", "28", "29", "30", "31", "32", "33", "34",
      "35", "36", "37", "38", "39", "40", "41", "42", "43", "44", "45",
      "46", "47", "48", "49", "50", "51", "52", "53", "54", "55", "56",
      "57", "58", "59", "60", "61", "62", "63", "64", "65", "66", "67",
      "68", "69", "70", "71", "72", "73", "74", "75", "76", "77", "78",
      "79", "80", "81", "82", "83", "84", "85", "86", "87", "88", "89",
      "90", "91", "92", "93", "94", "95", "96", "97", "98", "99", "100",
      "101", "102", "103", "104", "105", "106", "107", "108", "109",
      "110", "111", "112", "113", "114", "115", "116", "117", "118",
      "119", "120", "121", "122", "123", "124", "125", "126", "127",
      "128", "129", "130", "131", "132", "133", "134", "135", "136",
      "137", "138", "139", "140", "141", "142", "143", "144", "145",
      "146", "147", "148", "149", "150", "151", "152", "153", "154",
      "155", "156", "157", "158", "159", "160", "161", "162", "163",
      "164", "165", "166", "167", "168", "169", "170", "171", "172",
      "173", "174", "175", "176", "177", "178", "179", "180", "181",
      "182", "183", "184", "185", "186", "187", "188", "189", "190",
      "191", "192", "193", "194", "195", "196", "197", "198", "199",
      "200", "201", "202", "203", "204", "205", "206", "207", "208",
      "209", "210", "211", "212", "213", "214", "215", "216", "217",
      "218", "219", "220", "221", "222", "223", "224", "225", "226",
      "227", "228", "229", "230", "231", "232", "233", "234", "235",
      "236", "237", "238", "239", "240", "241", "242", "243", "244",
      "245", "246", "247", "248", "249", "250", "251", "252", "253",
      "254", "255"
    >>

IsDecimal(t) == \E i \in 1..Len(Decimal) : Decimal[i] = t

value(t) == (CHOOSE i \in 1..Len(Decimal) : Decimal[i] = t) - 1

(* str::parse::<Ipv4Addr>: four decimal octets separated by ".". *)
Ipv4Addr_from_str(s) ==
    IF /\ Len(s) = 7
       /\ \A i \in {2, 4, 6} : s[i] = "."
       /\ \A i \in {1, 3, 5, 7} : IsDecimal(s[i])
    THEN Ok(<<value(s[1]), value(s[3]), value(s[5]), value(s[7])>>)
    ELSE Err("invalid IPv4 address syntax")

(* A u32 is its 32 bits, bit 0 the lowest. *)
shl_one(k) == [b \in 0..31 |-> b = k]

minus_one(x) ==
    IF \A b \in 0..31 : ~x[b] THEN [b \in 0..31 |-> TRUE]
    ELSE LET low == CHOOSE j \in 0..31 : x[j] /\ \A b \in 0..(j - 1) : ~x[b]
         IN [b \in 0..31 |-> IF b < low THEN TRUE ELSE IF b = low THEN FALSE ELSE x[b]]

not(x) == [b \in 0..31 |-> ~x[b]]

RECURSIVE octet(_, _, _)
octet(x, i, b) ==
    IF b = 8 THEN 0
    ELSE (IF x[8 * i + b] THEN 2 ^ b ELSE 0) + octet(x, i, b + 1)

Ipv4Addr_from_bits(x) == <<octet(x, 3, 0), octet(x, 2, 0), octet(x, 1, 0), octet(x, 0, 0)>>

(* The two ways the arithmetic of line 36 is compiled: with overflow       *)
(* checks the subtraction below zero and the shift by 32 or more panic;    *)
(* without them the subtraction wraps and the shift takes its amount       *)
(* modulo 32.                                                              *)
Builds == {"debug", "release"}

Overflow == [res |-> "panic", val |-> "overflow"]

(* Ipv4Addr::from_bits(!((1 << (32 - netmask)) - 1)) *)
prefix_mask(n, profile) ==
    IF profile = "debug" /\ (n > 32 \/ 32 - n >= 32) THEN Overflow
    ELSE Ok(Ipv4Addr_from_bits(not(minus_one(shl_one((32 - n) % 32)))))

(* network_config.rs: FromStr for NetworkConfig. *)
NetworkConfig_from_str(s, profile) ==
    LET a == split_once(s, "/")
        h == split_once(a[2], "+")
        netmask == IF contains(a[3], ".") THEN Ipv4Addr_from_str(a[3])
                   ELSE IF Len(a[3]) = 1 /\ IsDecimal(a[3][1])
                   THEN prefix_mask(value(a[3][1]), profile)
                   ELSE Err("invalid digit")
        host_address == Ipv4Addr_from_str(h[2])
        container_address == Ipv4Addr_from_str(h[3])
    IN IF ~a[1] \/ ~h[1] THEN Err("form")
       ELSE IF netmask.res # "ok" THEN netmask
       ELSE IF host_address.res # "ok" THEN host_address
       ELSE IF container_address.res # "ok" THEN container_address
       ELSE Ok([host_address |-> host_address.val,
                container_address |-> container_address.val,
                netmask |-> netmask.val])

MaxPrefix == 33

(* The dotted text of the mask with n leading one bits. *)
MaskOctet(n, i) ==
    LET ones == IF n - 8 * (i - 1) < 0 THEN 0
                ELSE IF n - 8 * (i - 1) > 8 THEN 8 ELSE n - 8 * (i - 1)
    IN 256 - 2 ^ (8 - ones)

Dotted(n) ==
    <<Decimal[MaskOctet(n, 1) + 1], ".", Decimal[MaskOctet(n, 2) + 1], ".",
      Decimal[MaskOctet(n, 3) + 1], ".", Decimal[MaskOctet(n, 4) + 1]>>

Addresses ==
    {<<"10", ".", "0", ".", "0", ".", "1">>, <<"10", ".", "0", ".", "0", ".", "2">>,
     <<"10", ".", "0", ".", "1">>}

Netmasks ==
    {<<Decimal[n + 1]>> : n \in 0..MaxPrefix}
      \cup {Dotted(n) : n \in 0..32}
      \cup {<<>>, <<"x">>, <<"255", ".", "0", ".", "255", ".", "0">>}

NetworkStrings ==
    {h \o <<"+">> \o c \o <<"/">> \o m : h \in Addresses, c \in Addresses, m \in Netmasks}
      \cup {h \o <<"+">> \o c : h \in Addresses, c \in Addresses}
      \cup {h \o <<"/">> \o m : h \in Addresses, m \in Netmasks}

StoreAlphabet == {"/", "nix", "store", "abc"}
PortAlphabet == Numerals \cup {":", "+", "x"}
VolumeAlphabet == {":", ",", "ro", "x"}

ParseInputs ==
    [fn : {"NixStoreItem", "serde_NixStoreItem"},
     s : Strings(StoreAlphabet, MaxStoreLen)]
      \cup [fn : {"PortMapping"}, s : Strings(PortAlphabet, MaxPortLen)]
      \cup [fn : {"VolumeMount"}, s : Strings(VolumeAlphabet, MaxVolumeLen)]
      \cup [fn : {"NetworkConfig"}, s : NetworkStrings]

Parses(fn, result) ==
    /\ pc = "parse"
    /\ input.fn = fn
    /\ output' = result
    /\ pc' = "done"
    /\ UNCHANGED <<fsvars, port_mappings, kvars, child, uvars, call, netvars,
                   wait_result, exit_code, input>>

try_from == Parses("NixStoreItem", NixStoreItem_try_from(input.s))

serde_try_from ==
    Parses("serde_NixStoreItem", serde_NixStoreItem_try_from(input.s))

port_from_str == Parses("PortMapping", PortMapping_from_str(input.s))

volume_from_str == Parses("VolumeMount", VolumeMount_from_str(input.s))

network_from_str ==
    \E b \in Builds : Parses("NetworkConfig", NetworkConfig_from_str(input.s, b))

InitParse ==
    /\ Quiet
    /\ unshare = ContainerConfig
    /\ thunk = {-100}
    /\ pc = "parse"
    /\ input \in ParseInputs
    /\ output = [res |-> "none"]

NextParse ==
    \/ try_from
    \/ serde_try_from
    \/ port_from_str
    \/ volume_from_str
    \/ network_from_str

SpecParse == InitParse /\ [][NextParse]_vars

----------------------------------------------------------------------------
(* The subprocesses of the store tools.  A finished process is its exit    *)
(* status, its stdout and its stderr; an error is its chain of messages,   *)
(* outermost first, each message the pieces of text it is formatted from.  *)

MaxStatus == 2

Stdouts == {"json", "garbage", "empty"}
Stderrs == {"error: flake not found", "warning: dirty tree"}

ProcessOutputs == [status : 0..MaxStatus, stdout : Stdouts, stderr : Stderrs]

Invocations ==
    {"NixBuild::run", "NixEval::run", "get_flake_info", "build_nix_flake", "closure"}

bail(chain, logged) == [res |-> "err", val |-> chain, logged |-> logged]

Succeeded(v) == [res |-> "ok", val |-> v, logged |-> <<>>]

(* anyhow's Context: a message put in front of the chain of an error. *)
context(r, msg) == IF r.res = "err" THEN [r EXCEPT !.val = <<<<msg>>>> \o @] ELSE r

(* command.rs run_command: a non-zero exit logs stderr and fails with a    *)
(* message that names the command only.                                    *)
run_command(out) ==
    IF out.status # 0
    THEN bail(<<<<"Command ", " failed">>>>, <<out.stderr>>)
    ELSE Succeeded(out)

(* serde_json::from_str of the captured stdout, under a context message. *)
from_stdout(r, msg) ==
    IF r.res # "ok" THEN r
    ELSE IF r.val.stdout = "json" THEN Succeeded("parsed")
    ELSE context(bail(<<<<"expected value">>>>, <<>>), msg)

(* nix_helpers.rs NixStoreItem::closure: its own check of the status. *)
NixStoreItem_closure(out) ==
    IF out.status # 0
    THEN bail(<<<<"Failed to get nix store closure: ", out.stderr>>>>, <<>>)
    ELSE IF out.stdout = "garbage"
    THEN bail(<<<<"garbage", " is not a nix store item">>>>, <<>>)
    ELSE Succeeded("parsed")

Invoke(fn, out) ==
    CASE fn \in {"NixBuild::run", "NixEval::run"} ->
           from_stdout(context(run_command(out), "Running nix command"),
                       "Parsing nix output")
      [] fn = "get_flake_info" ->
           from_stdout(context(run_command(out), "Running nix flake show"),
                       "Analyzing nix flake show output")
      [] fn = "build_nix_flake" ->
           from_stdout(context(run_command(out), "Running nix build"),
                       "Analyzing nix build output")
      [] fn = "closure" -> NixStoreItem_closure(out)

Runs(fns) ==
    /\ pc = "command"
    /\ input.fn \in fns
    /\ output' = Invoke(input.fn, input.out)
    /\ pc' = "done"
    /\ UNCHANGED <<fsvars, port_mappings, kvars, child, uvars, call, netvars,
                   wait_result, exit_code, input>>

nix_run == Runs({"NixBuild::run", "NixEval::run"})

get_flake_info == Runs({"get_flake_info"})

build_nix_flake == Runs({"build_nix_flake"})

closure == Runs({"closure"})

InitCommand ==
    /\ Quiet
    /\ unshare = ContainerConfig
    /\ thunk = {-100}
    /\ pc = "command"
    /\ input \in [fn : Invocations, out : ProcessOutputs]
    /\ output = [res |-> "none"]

NextCommand ==
    \/ nix_run
    \/ get_flake_info
    \/ build_nix_flake
    \/ closure

SpecCommand == InitCommand /\ [][NextCommand]_vars

----------------------------------------------------------------------------
(* The environment of the container command.  An environment is a set of   *)
(* <<key, value>> pairs with one value for a key; the builder's envs is    *)
(* the list of EnvVariable in the order they were given.                   *)

MaxEnvs == 2

EnvKeys == {"PATH", "HOME", "FOO"}
EnvValues == {"/usr/bin", "x"}
ArtifactBin == "<artifact>/bin"

EnvVariables == [key : EnvKeys, value : EnvValues]

Environments ==
    {e \in SUBSET (EnvKeys \X EnvValues) :
        \A p \in e, q \in e : p[1] = q[1] => p = q}

(* Command::env: the value of a key is replaced. *)
Command_env(env, e) == {p \in env : p[1] # e.key} \cup {<<e.key, e.value>>}

(* Command::envs: each entry in turn, so a later entry of a key wins. *)
RECURSIVE Command_envs(_, _)
Command_envs(env, entries) ==
    IF entries = <<>> THEN env
    ELSE Command_envs(Command_env(env, Head(entries)), Tail(entries))

(* ContainerBuilder::envs: the entries are appended. *)
ContainerBuilder_envs(envs, more) == envs \o more

(* A command that keeps the environment it inherits. *)
Command_env_kept(inherited) == inherited

(* Command::env_clear: nothing is inherited. *)
Command_env_clear(inherited) == {}

(* spawn lines 207-212: the environment the exec'd command gets. *)
Container_command_env(inherited, envs) ==
    Command_envs(Command_env_clear(inherited), envs)

(* The caller of the builder: PATH first, the user's entries after it. *)
run_envs(user) ==
    ContainerBuilder_envs(
        ContainerBuilder_envs(<<>>, <<[key |-> "PATH", value |-> ArtifactBin]>>),
        user)

spawn_env ==
    /\ pc = "env"
    /\ output' = Ok(Container_command_env(input.inherited, run_envs(input.user)))
    /\ pc' = "done"
    /\ UNCHANGED <<fsvars, port_mappings, kvars, child, uvars, call, netvars,
                   wait_result, exit_code, input>>

InitEnv ==
    /\ Quiet
    /\ unshare = ContainerConfig
    /\ thunk = {-100}
    /\ pc = "env"
    /\ input \in [fn : {"spawn"}, inherited : Environments,
                   user : UNION {[1..n -> EnvVariables] : n \in 0..MaxEnvs}]
    /\ output = [res |-> "none"]

NextEnv == spawn_env

SpecEnv == InitEnv /\ [][NextEnv]_vars

----------------------------------------------------------------------------
(* init.rs poll(duration, wait, f).  Time is counted in ticks of the       *)
(* monotonic clock; a call of f takes at least one tick and returns.  f is *)
(* the list of what its first calls yield, and yields nothing after them;  *)
(* the value of its n-th call is n.  output holds the loop's state: the    *)
(* number of calls of f, the time elapsed since `start`, the sleeps.       *)

MaxDuration == 3
MaxWait == 2
MaxOutcomes == 2

Outcomes == {"none", "some", "err"}
Costs == {1, 2}

PollInputs ==
    [fn : {"poll"}, duration : 0..MaxDuration, wait : 0..MaxWait,
     f : UNION {[1..n -> Outcomes] : n \in 0..MaxOutcomes}]

Yields(f, n) == IF n <= Len(f) THEN f[n] ELSE "none"

(* A loop that takes an error of f for "nothing yet". *)
poll_match_retry(yield, n) ==
    CASE yield = "some" -> [res |-> "ok", val |-> n, err |-> ""]
      [] OTHER -> [res |-> "none", val |-> 0, err |-> ""]

(* Line 12: `if let Some(result) = f()? { return Ok(result); }` *)
poll_match(yield, n) ==
    CASE yield = "err" -> [res |-> "err", val |-> 0, err |-> "f"]
      [] yield = "some" -> [res |-> "ok", val |-> n, err |-> ""]
      [] yield = "none" -> [res |-> "none", val |-> 0, err |-> ""]

PollUnchanged ==
    UNCHANGED <<fsvars, port_mappings, kvars, child, uvars, call, netvars,
                wait_result, exit_code, input>>

poll_call ==
    /\ pc = "poll"
    /\ \E cost \in Costs :
         LET n == output.calls + 1
             r == poll_match(Yields(input.f, n), n)
         IN /\ output' = [output EXCEPT !.res = r.res, !.val = r.val, !.err = r.err,
                                         !.calls = n,
                                         !.elapsed = @ + cost]
            /\ pc' = IF r.res = "none" THEN "poll_elapsed" ELSE "done"
    /\ PollUnchanged

poll_elapsed ==
    /\ pc = "poll_elapsed"
    /\ IF output.elapsed > input.duration
       THEN /\ output' = [output EXCEPT !.res = "err", !.err = "Timed out"]
            /\ pc' = "done"
       ELSE /\ output' = output
            /\ pc' = "poll_sleep"
    /\ PollUnchanged

poll_sleep ==
    /\ pc = "poll_sleep"
    /\ output' = [output EXCEPT !.elapsed = @ + input.wait, !.sleeps = @ + 1]
    /\ pc' = "poll"
    /\ PollUnchanged

InitPoll ==
    /\ Quiet
    /\ unshare = ContainerConfig
    /\ thunk = {-100}
    /\ pc = "poll"
    /\ input \in PollInputs
    /\ output = [res |-> "none", val |-> 0, err |-> "", calls |-> 0,
                 elapsed |-> 0, sleeps |-> 0]

NextPoll ==
    \/ poll_call
    \/ poll_elapsed
    \/ poll_sleep

(* The loop is straight-line code of a running thread: it keeps going. *)
SpecPoll == InitPoll /\ [][NextPoll]_vars /\ WF_vars(NextPoll)

----------------------------------------------------------------------------
(* What the log says. *)

Idx(op, grp) == {i \in 1..Len(log) : log[i].op = op /\ log[i].grp = grp}
Umounts == {i \in 1..Len(log) : log[i].op = "umount"}
Removals == {i \in 1..Len(log) : log[i].op = "remove_dir_all"}
Mounted(grp) == {i \in Idx("mount", grp) : log[i].ok}
Keys(evs) == [i \in 1..Len(evs) |-> <<evs[i].grp, evs[i].idx>>]
Reverse(q) == [i \in 1..Len(q) |-> q[Len(q) + 1 - i]]
AcquireOrder == Keys(SelectSeq(log, LAMBDA e : e.op = "mount" /\ e.ok))
UnmountOrder == Keys(SelectSeq(log, LAMBDA e : e.op = "umount"))
Acquired(grp) == SelectSeq(AcquireOrder, LAMBDA k : k[1] = grp)
Started == call = Call("spawn", "ok", "")
TornDown == pc = "exit" /\ Started

(* C1: when a ContainerFs is released, every unmount of a volume mount is  *)
(* called before any unmount of a closure mount, every guard's unmount is  *)
(* called before remove_dir_all of the temp directory, and once the        *)
(* TempDir is dropped no MountGuard is left alive.                         *)
C1_ReleaseOrder ==
    /\ \A i \in Idx("umount", "volume"), j \in Idx("umount", "nix") : i < j
    /\ \A i \in Umounts, j \in Removals : i < j
    /\ Removals # {} =>
         /\ Cardinality(Idx("umount", "volume")) = Cardinality(Mounted("volume"))
         /\ Cardinality(Idx("umount", "nix")) = Cardinality(Mounted("nix"))
    /\ tempdir = "dropped" => (nix_mounts = <<>> /\ volume_mounts = <<>>)

C1_Witness ==
    /\ TornDown
    /\ Cardinality(Idx("umount", "volume")) = 2
    /\ Cardinality(Idx("umount", "nix")) = 2
    /\ Removals # {}

(* C2: dropping a ContainerGuard signals the container child, then the     *)
(* helper, and only then releases the ContainerFs: every unmount and the   *)
(* temp directory's removal come after the helper's signal, the unmounts   *)
(* before the removal.                                                     *)
C2_TeardownOrder ==
    TornDown =>
      \E i \in Idx("kill", "container"), j \in Idx("kill", "slirp") :
        /\ i < j
        /\ \A k \in Umounts \cup Removals : j < k
        /\ \A k \in Removals : \A u \in Umounts : u < k
        /\ Removals # {}
        /\ Len(UnmountOrder) = Len(AcquireOrder)

C2_Witness ==
    /\ TornDown
    /\ wait_result.res = "ok"
    /\ thread.st = "done"
    /\ Umounts # {}

(* C3: after a successful start, once wait() has returned and the         *)
(* ContainerGuard is dropped, no bind mount made for the container is      *)
(* still mounted.                                                          *)
C3_NoSurvivingMounts == (TornDown /\ wait_result.res = "ok") => mt = {}

(* C4: when build() fails at a volume (its create_dir_all or its mount),   *)
(* no MountGuard is alive once the error is returned: the closure guards   *)
(* and the guards of the volumes before it were dropped, each with its     *)
(* unmount called, and the TempDir was dropped.                            *)
C4_NoLiveGuardsAfterVolumeFailure ==
    call = Call("build", "err", "volume") =>
      /\ nix_mounts = <<>>
      /\ volume_mounts = <<>>
      /\ tempdir = "dropped"
      /\ Cardinality(Umounts) = Len(AcquireOrder)

C4_Witness ==
    /\ call = Call("build", "err", "volume")
    /\ Mounted("nix") # {}
    /\ \E i \in 1..Len(log) :
         log[i].grp = "volume" /\ log[i].idx = 2 /\ ~log[i].ok

HelperFailure ==
    \/ call = Call("spawn", "err", "spawn")
    \/ slirp = "dead" /\ pipe = "eof"
    \/ thread.err

C6_HelperFailureSparesContainer ==
    (HelperFailure /\ wait_result.res # "err"
       /\ child.st \in {"setup", "thunk", "running"}) =>
      /\ ~child.sig
      /\ tempdir = "live"
      /\ dir
      /\ Len(nix_mounts) = Len(nix_components)
      /\ Len(volume_mounts) = Len(volumes)

(* C7: no add_hostfwd message is sent unless the read of the ready pipe    *)
(* returned the readiness byte.                                            *)
C7_HostfwdOnlyAfterReady == thread.hostfwd > 0 => thread.ready = "Ok(1)"

(* C8: when the ContainerGuard is dropped after wait() returned (the       *)
(* helper killed, the temp directory removed), the background thread has   *)
(* completed.                                                              *)
C8_ThreadDoneBeforeDrop ==
    (wait_result.res = "ok" /\ Started /\
       (Idx("kill", "slirp") # {} \/ Removals # {})) =>
      thread.st = "done"

(* C10: the launcher's exit code is the container child's exit code when   *)
(* the child exited cleanly, and non-zero when it did not or a step        *)
(* failed.                                                                 *)
C10_ExitCode ==
    pc = "exit" =>
      IF Started /\ wait_result.res = "ok" /\ wait_result.some
      THEN exit_code = wait_result.code
      ELSE exit_code # 0

----------------------------------------------------------------------------
(* Under SpecUnshare. *)

Reported == {"unshare", "setgroups", "uid_map", "gid_map", "chroot", "clone"}

(* C9 as stated: for enter() and execute() alike, a failure of unshare, of *)
(* an id-map write, of chroot or of clone makes the call return an error.  *)
C9_FailuresAreErrors ==
    (call.fn \in {"enter", "execute"} /\
       \E e \in Range(log) \cup Range(child.calls) : ~e.ok /\ e.op \in Reported)
      => call.res = "err"

(* C9, amended: enter() returns an error exactly when unshare or a step of *)
(* its post-entry setup failed, and execute() returns an error exactly     *)
(* when clone failed.  Under execute() an id-map write or chroot failure   *)
(* happens in the cloned child after execute() returned Ok: the thunk is   *)
(* not run, the child exits with the status of -1000, and a wait() on the  *)
(* handle of that child, which never exec'd, returns an error.             *)
C9_FailuresReportedWhereTheyHappen ==
    /\ call.fn \in {"enter", "execute"} => (call.res = "err" <=> Failed(log))
    /\ Failed(child.calls) =>
         /\ call = Call("execute", "ok", "clone")
         /\ child.st = "exited"
         /\ child.status = ExitStatus(-1000)
         /\ \A e \in Range(child.calls) : e.op \notin {"exec", "return"}
         /\ pc = "waited" => wait_result = WaitResult("err", FALSE, 0)

C9_Witness ==
    /\ call = Call("execute", "ok", "clone")
    /\ child.st = "exited"
    /\ child.status = ExitStatus(-1000)
    /\ \E e \in Range(child.calls) : e.op = "chroot" /\ ~e.ok
    /\ pc = "waited"

----------------------------------------------------------------------------
(* C11: after a successful execute(), a wait() called once the child's     *)
(* main has returned (the child exited cleanly) does return, and returns   *)
(* the result of that child: its exit code.                                *)
C11_WaitReturnsResult ==
    [][(pc = "returned" /\ pc' = "waited" /\ child.st = "exited") =>
         wait_result' = WaitResult("ok", TRUE, child.status)]_vars

----------------------------------------------------------------------------
PostEnterOrder == <<"setgroups", "uid_map", "gid_map", "chroot", "chdir">>

Configured(op) ==
    IF op \in {"setgroups", "uid_map", "gid_map"}
    THEN unshare.uid_maps \/ unshare.gid_maps
    ELSE unshare.root

IsPostEnter(e) == e.op \in PostEnterCalls

(* The steps taken are the first steps of `steps`, in that order, and all  *)
(* but the last one taken succeeded.                                       *)
TakenInOrder(evs, steps) ==
    /\ Len(evs) <= Len(steps)
    /\ \A i \in 1..Len(evs) :
         /\ evs[i].op = steps[i] \/ (i = Len(steps) /\ evs[i].op \in {"exec", "return"})
         /\ i < Len(evs) => evs[i].ok

(* C24: in the cloned child and in enter() the steps after entry are       *)
(* setgroups deny, uid_map, gid_map, chroot, chdir, in this order and each *)
(* only after all before it succeeded; the thunk runs after them, and in   *)
(* the child never after a failed step.                                    *)
C24_PostEntryOrder ==
    LET steps == SelectSeq(PostEnterOrder, Configured)
    IN /\ TakenInOrder(child.calls, steps \o <<"thunk">>)
       /\ TakenInOrder(SelectSeq(log, IsPostEnter), steps)
       /\ child.st \in {"thunk", "running"} =>
            /\ Len(child.calls) >= Len(steps)
            /\ \A i \in 1..Len(steps) : child.calls[i].ok

C24_Witness ==
    /\ Len(child.calls) = 6
    /\ child.calls[6].op = "exec"
    /\ child.st = "running"

----------------------------------------------------------------------------
PathOf(e) == IF e.grp = "nix" THEN nix_components[e.idx] ELSE volumes[e.idx]

Beneath(q, p) == Len(q) > Len(p) /\ SubSeq(q, 1, Len(p)) = p

(* C26: at teardown a bind mount is unmounted only after every mount made  *)
(* beneath its target has been unmounted: no unmount is called on a mount  *)
(* point while a mount below it is still there.                            *)
C26_InnermostFirst ==
    \A u \in Umounts : \A m \in Mounted("nix") \cup Mounted("volume") :
        (m < u /\ Beneath(PathOf(log[m]), PathOf(log[u]))) =>
            \E v \in Umounts :
                /\ v < u
                /\ log[v].ok
                /\ log[v].grp = log[m].grp
                /\ log[v].idx = log[m].idx

----------------------------------------------------------------------------
(* C27: the drop of a ContainerGuard sends no signal to the pid of a child *)
(* that an earlier wait() has reaped: every signal it sends to the         *)
(* container's pid finds that child still unreaped.                        *)
C27_NoSignalAfterReap == \A i \in Idx("kill", "container") : log[i].ok

(* C28: when spawn returns an error after the clone succeeded (the helper  *)
(* could not be activated), the cloned child has been signalled by the     *)
(* launcher or has ended before its rootfs is unmounted and removed.       *)
C28_SpawnErrorStopsChild ==
    (call.fn = "spawn" /\ call.res = "err" /\ call.at # "clone"
       /\ (Umounts # {} \/ Removals # {})) =>
        (child.sig \/ child.st \in {"exited", "killed", "reaped"})

(* C29: when the read of the ready pipe returns end of file (all write     *)
(* ends closed, no ready byte written), the background thread stops        *)
(* waiting.                                                                *)
C29_ThreadStopsAtEof == thread.ready = "Ok(0)" => thread.st # "waiting"

----------------------------------------------------------------------------
(* C13: the directory of a TempDir is created when the guard is made: it   *)
(* exists from the moment construction has returned until the guard is     *)
(* dropped, and is gone once the guard is dropped.                         *)
C13_TempDirOwnsDirectory ==
    /\ tempdir = "live" => dir
    /\ tempdir = "dropped" => ~dir

----------------------------------------------------------------------------
(* Under Spec: cleanup failures. *)

FailedCleanup ==
    {i \in 1..Len(log) :
       ~log[i].ok /\ log[i].op \in {"umount", "remove_dir_all", "kill"}}

ErrorAfter(i) ==
    i < Len(log) /\ log[i + 1] = Ev("error", log[i].grp, log[i].idx, FALSE)

(* Once the TempDir is dropped every guard's unmount and the removal have  *)
(* been called, and a torn-down container has had both kills called.       *)
TeardownAttemptsAll ==
    /\ tempdir = "dropped" =>
         /\ Len(UnmountOrder) = Len(AcquireOrder)
         /\ Cardinality(Removals) = 1
    /\ TornDown =>
         /\ Cardinality(Idx("kill", "container")) = 1
         /\ Cardinality(Idx("kill", "slirp")) = 1

(* The launcher's result is that of wait(), whatever the cleanup did. *)
TeardownNotPropagated ==
    TornDown => exit_code = main_exit_code(wait_result)

----------------------------------------------------------------------------
(* Under Spec: the order of assembly, clone and helper. *)

Clones == {i \in Idx("clone", "parent") : log[i].ok}
HelperSpawns == Idx("spawn", "slirp")
Mounts == {i \in 1..Len(log) : log[i].op = "mount"}

(* C15: when the container child is cloned every closure and volume mount  *)
(* has been made, and the helper is spawned only after clone returned the  *)
(* child's pid, which is the pid the helper is given.                      *)
C15_AssembleCloneHelper ==
    /\ \A c \in Clones :
         /\ \A m \in Mounts : m < c
         /\ Cardinality(Mounted("nix")) = Len(nix_components)
         /\ Cardinality(Mounted("volume")) = Len(volumes)
    /\ \A h \in HelperSpawns :
         \E c \in Clones : c < h /\ log[h].idx = log[c].idx

C15_Witness ==
    /\ Started
    /\ Cardinality(Mounted("nix")) = 2
    /\ Cardinality(Mounted("volume")) = 2
    /\ \E h \in HelperSpawns : log[h].ok /\ log[h].idx \in Pids

----------------------------------------------------------------------------
(* Under SpecFlake. *)

Offers(pkgs) == find(DEFAULT_OUTPUT_NAMES, pkgs.names)

(* The choice the build is to make for a reference without output. *)
Suitable(in) ==
    IF Offers(in.packages) # "none" THEN <<"packages", Offers(in.packages)>>
    ELSE IF Offers(in.legacy_packages) # "none"
         THEN <<"legacyPackages", Offers(in.legacy_packages)>>
    ELSE <<>>

NoSuitableOutput == {"no packages for system", "no expected output"}

(* C16: for a reference without output, build takes the first of           *)
(* [containix, default] found under packages.<system>, else the first      *)
(* found under legacyPackages.<system>, and fails for want of a suitable   *)
(* output only when neither has one.                                       *)
C16_DefaultOutputWithFallback ==
    (pc = "done" /\ input.output = "none") =>
      /\ output.res = "ok" => output.val.attr = Suitable(input)
      /\ (output.res = "err" /\ output.val \in NoSuitableOutput) =>
           Suitable(input) = <<>>

(* C17: the artifact of a build is the output named bin when the output    *)
(* map has one, else the one named out; with neither the build fails.      *)
C17_BinElseOut ==
    (pc = "done" /\ ContainixFlake_output(input).res = "ok"
       /\ Len(input.built) = 1) =>
      LET outputs == input.built[1]
      IN /\ "bin" \in outputs =>
              (output.res = "ok" /\ output.val.artifact = "bin")
         /\ ("bin" \notin outputs /\ "out" \in outputs) =>
              (output.res = "ok" /\ output.val.artifact = "out")
         /\ ("bin" \notin outputs /\ "out" \notin outputs) =>
              output = Err("no bin or out")

C17_Witness ==
    /\ pc = "done"
    /\ Len(input.built) = 1
    /\ input.built[1] = {"out", "dev"}
    /\ output.res = "ok"
    /\ output.val.artifact = "out"

(* C30: when the builder's list of derivations is not exactly one long,    *)
(* be it empty or two or more, NixFlake::build returns an error and does   *)
(* not panic.                                                              *)
C30_BuildErrorNotPanic ==
    (pc = "done" /\ ContainixFlake_output(input).res = "ok"
       /\ Len(input.built) # 1) =>
      output.res = "err"

----------------------------------------------------------------------------
(* Under SpecMount. *)

MountsOk(grp, d) ==
    {i \in 1..Len(log) : log[i] = Ev("mount", grp, d, TRUE)}
UmountsOf(d) == {i \in 1..Len(log) : log[i].op = "umount" /\ log[i].idx = d}
Alive(d) == \E j \in 1..Len(volume_mounts) : volume_mounts[j].path = Dests[d]

(* C12: a successful bind mount gives a guard whose drop calls unmount on  *)
(* the mount's destination exactly once; a guard of a mount built with     *)
(* cleanup = false calls no unmount when dropped; a failed mount gives no  *)
(* guard and no unmount is ever called for it.                             *)
C12_GuardUnmountsOnce ==
    \A d \in 1..Len(Dests) :
      /\ Cardinality(UmountsOf(d)) <= 1
      /\ \A u \in UmountsOf(d) :
           /\ ~Alive(d)
           /\ \E m \in MountsOk("bind", d) : m < u
      /\ (MountsOk("bind", d) # {} /\ ~Alive(d)) =>
           Cardinality(UmountsOf(d)) = 1
      /\ Alive(d) => MountsOk("bind", d) \cup MountsOk("bind_keep", d) # {}

C12_Witness ==
    /\ volume_mounts = <<>>
    /\ Cardinality(UmountsOf(1)) = 1
    /\ MountsOk("bind_keep", 2) # {}
    /\ UmountsOf(2) = {}
    /\ Ev("mount", "bind", 3, FALSE) \in Range(log)


----------------------------------------------------------------------------
(* Under SpecParse. *)

Parsed(fn) == pc = "done" /\ input.fn = fn

(* An identifier: at least one character and no "/". *)
IsId(s) == s # <<>> /\ ~contains(s, "/")

StorePrefix == <<"/", "nix", "/", "store", "/">>

AfterPrefix(s) == SubSeq(s, Len(StorePrefix) + 1, Len(s))

(* C18: the parser of store items takes a bare identifier and the absolute *)
(* path /nix/store/<id> to the same item, and rejects a path with more     *)
(* components or with another prefix.  Stated of the parser of             *)
(* nix_helpers.rs and of the one of examples/serde.rs.                     *)
C18_StorePathParser ==
    (Parsed("NixStoreItem") \/ Parsed("serde_NixStoreItem")) =>
        LET s == input.s
            absolute == starts_with(s, StorePrefix)
        IN /\ IsId(s) => output = Ok(s)
           /\ (absolute /\ IsId(AfterPrefix(s))) => output = Ok(AfterPrefix(s))
           /\ (contains(s, "/") /\ ~(absolute /\ ~contains(AfterPrefix(s), "/")))
                 => output.res = "err"

(* A port as the specification writes it: decimal digits, at most 65535. *)
Port(s) ==
    /\ s # <<>>
    /\ \A i \in 1..Len(s) : s[i] \in Numerals
    /\ checked_value(0, s) <= U16Max

(* A port as the parser takes it: the same after an optional "+". *)
SignedPort(s) == Port(s) \/ (s # <<>> /\ s[1] = "+" /\ Port(Tail(s)))

PortValue(s) == checked_value(0, IF s[1] = "+" THEN Tail(s) ELSE s)

Mapping(h, c) == Ok([host_port |-> PortValue(h), container_port |-> PortValue(c)])

(* C19 as stated: exactly "P" and "H:C" with decimal ports up to 65535 are *)
(* accepted, "P" as (P, P) and "H:C" as (H, C); all else is rejected.      *)
C19_PortMappingExact ==
    Parsed("PortMapping") =>
        LET s == input.s
            h == split_once(s, ":")
        IN IF Port(s) THEN output = Mapping(s, s)
           ELSE IF h[1] /\ Port(h[2]) /\ Port(h[3])
           THEN output = Mapping(h[2], h[3])
           ELSE output.res = "err"

(* C19 amended: the same, where a port may carry a leading "+": "+80" is   *)
(* accepted as 80; a port above 65535, a part that is not a number and a   *)
(* second colon are rejected.                                              *)
C19_PortMappingSigned ==
    Parsed("PortMapping") =>
        LET s == input.s
            h == split_once(s, ":")
        IN IF SignedPort(s) THEN output = Mapping(s, s)
           ELSE IF h[1] /\ SignedPort(h[2]) /\ SignedPort(h[3])
           THEN output = Mapping(h[2], h[3])
           ELSE output.res = "err"

C19_Witness ==
    /\ Parsed("PortMapping")
    /\ input.s = <<"+", "80", ":", "65535">>
    /\ output = Ok([host_port |-> 80, container_port |-> U16Max])

(* "ro" stands between commas, or at an end, of the option list. *)
HasOption(options, o) ==
    \E i \in 1..Len(options) :
        /\ options[i] = o
        /\ i = 1 \/ options[i - 1] = ","
        /\ i = Len(options) \/ options[i + 1] = ","

(* C20: a volume mount is split at its first ":" into host and container   *)
(* path, and the container part at its first ":", when it has one, into    *)
(* path and a comma-separated option list; read_only holds exactly when    *)
(* "ro" is one of the options, and an input without ":" is rejected.       *)
C20_VolumeMountParser ==
    Parsed("VolumeMount") =>
        LET s == input.s
            h == split_once(s, ":")
            c == split_once(h[3], ":")
        IN IF ~contains(s, ":") THEN output.res = "err"
           ELSE /\ output.res = "ok"
                /\ output.val.host_path = h[2]
                /\ output.val.container_path = (IF c[1] THEN c[2] ELSE h[3])
                /\ output.val.read_only = (c[1] /\ HasOption(c[3], "ro"))

C20_Witness ==
    /\ Parsed("VolumeMount")
    /\ input.s = <<"x", ":", "x", ":", "x", ",", "ro">>
    /\ output = Ok([host_path |-> <<"x">>, container_path |-> <<"x">>,
                    read_only |-> TRUE])


NetworkInput(mask) ==
    <<"10", ".", "0", ".", "0", ".", "1", "+", "10", ".", "0", ".", "0", ".", "2", "/">> \o mask

(* C21: for every prefix length n in 0..32, A+B/n parses to the same       *)
(* NetworkConfig as A+B/<the dotted mask with n leading one bits>, and     *)
(* the parse does not overflow.                                            *)
C21_PrefixAgreesWithDotted ==
    \A n \in 0..32 :
        (Parsed("NetworkConfig") /\ input.s = NetworkInput(<<Decimal[n + 1]>>)) =>
            /\ output.res # "panic"
            /\ \A b \in Builds :
                 output = NetworkConfig_from_str(NetworkInput(Dotted(n)), b)


----------------------------------------------------------------------------
(* Under SpecCommand. *)

InChain(chain, text) ==
    \E i \in 1..Len(chain) : \E j \in 1..Len(chain[i]) : chain[i][j] = text

(* C22: every invocation of a store tool that exits non-zero gives its     *)
(* caller an error, and the chain of that error holds the tool's stderr.   *)
C22_FailureCarriesStderr ==
    (pc = "done" /\ input.fn \in Invocations /\ input.out.status # 0) =>
        /\ output.res = "err"
        /\ InChain(output.val, input.out.stderr)


----------------------------------------------------------------------------
(* Under SpecEnv. *)

Given(user, k) == {i \in 1..Len(user) : user[i].key = k}

LastGiven(user, k) == user[CHOOSE i \in Given(user, k) : \A j \in Given(user, k) : j <= i]

----------------------------------------------------------------------------
(* Under SpecPoll. *)

NothingBefore(n) == \A i \in 1..(n - 1) : Yields(input.f, i) = "none"

PollReturns ==
    pc = "done" =>
        /\ output.calls >= 1
        /\ NothingBefore(output.calls)
        /\ output.sleeps = output.calls - 1
        /\ CASE Yields(input.f, output.calls) = "some" ->
                   output.res = "ok" /\ output.val = output.calls
             [] Yields(input.f, output.calls) = "err" ->
                   output.res = "err" /\ output.err = "f"
             [] OTHER ->
                   /\ output.res = "err" /\ output.err = "Timed out"
                   /\ output.elapsed > input.duration

PollSleeps ==
    /\ pc = "poll_sleep" => output.elapsed <= input.duration
    /\ pc = "poll" => output.sleeps = output.calls

(* C25: poll ends.  It calls f at least once, returns the first value f    *)
(* yields, returns the first error of f without another call, and when f   *)
(* yields nothing it returns a timeout error once the time elapsed is      *)
(* above duration, with one sleep between two calls of f.                  *)
C25_PollTerminates == [](PollReturns /\ PollSleeps) /\ <>(pc = "done")

C25_Witness ==
    /\ pc = "done"
    /\ output.calls = 3
    /\ output.sleeps = 2
    /\ output.err = "Timed out"
    /\ input.wait = 1

====
